---- MODULE Spec2Model ----
(***************************************************************************)
(* People-flow counting engine: the per-frame track resolver and crossing  *)
(* detector of people-counter/src/App.jsx, the counter store of BACK/db.js  *)
(* (MariaDB) and of the SQLite variant of db.js, and the debounced sync     *)
(* reconciler between them.                                                 *)
(*                                                                         *)
(* Coordinates.  Landmark x and y are normalized to [0,1]; the model keeps *)
(* them as integers in units of 1/20 (0.05).  A reference point (center)   *)
(* is a mean of landmark coordinates, so it is kept in units of 1/40: the  *)
(* torso center (l + r) / 2 is the integer l + r in those units.  In the   *)
(* same units the matching threshold 0.15 is 6 and the line 0.5 is 20.     *)
(* Distances are compared by their squares (sqrt is monotone).             *)
(* Visibility is kept in tenths (0.5 is 5).                                *)
(***************************************************************************)
EXTENDS Integers, Sequences, FiniteSets, TLC

VARIABLES
    trackedPeople,   \* trackedPeopleRef.current: insertion-ordered Map id -> person
    entrances,       \* React state `entrances` (Local Totals)
    exits,           \* React state `exits` (Local Totals)
    trackingMode,    \* trackingModeRef.current: "torso" | "skeleton" | "bbox"
    clock,           \* Date.now()
    events,          \* crossing events emitted by the last processed frame
    resolved,        \* what the resolver did with each body of that frame
    emitted,         \* ids that emitted an event and were matched in every frame since
    sides,           \* per physical person, the sides of the line it has been seen on
    tally            \* the events the session has emitted since it was mounted or reset

\* The state of one counting session, the clock apart
sessionVars ==
    <<trackedPeople, entrances, exits, trackingMode, events, resolved, emitted, sides,
      tally>>

trackVars == <<sessionVars, clock>>

VARIABLES
    backend,         \* which db.js serves the API: "mariadb" (BACK/db.js) or "sqlite"
    people_counter,  \* table people_counter: rows [id, entrances, exits, current_inside, last_updated]
    counter_history, \* table counter_history: rows [event_type, timestamp], in insertion order
    response,        \* the last response of the counter API
    calls            \* POST /counter/increment calls served step by step: [type, pc]

storeVars == <<backend, people_counter, counter_history, response, calls>>

VARIABLES
    apiConnected,    \* React state `apiConnected`
    lastSynced,      \* lastSyncedEntrances.current and lastSyncedExits.current
    syncTimeout,     \* the pending timer of syncTimeoutRef.current and the totals it captured
    timers,          \* the timers of the session that the browser holds, not yet fired
                     \* nor cleared, and whether the last setTimeout followed a
                     \* clearTimeout of an unfired one
    burst            \* the crossings that rescheduled the pending timer, and whether
                     \* no store call has resolved nor reset been made since the first

\* The state of the sync reconciler of the session
clientVars == <<apiConnected, lastSynced, syncTimeout, timers, burst>>

VARIABLES
    requests,        \* fetch calls of the session on their way to the API
    responses,       \* responses of the API on their way to the session
    nextReq,         \* the number the next fetch call gets
    anyFailed,       \* some store call of the session has failed
    resetUsed,       \* the session has been reset
    peer             \* a second session on the same API: its reconciler and its call

netVars == <<requests, responses, nextReq, anyFailed, resetUsed, peer>>

vars == <<trackVars, storeVars, clientVars, netVars>>

----------------------------------------------------------------------------
(* Bounds of the model *)

MaxClock == 1     \* Date.now() takes the values 0..MaxClock
MaxCount == 2     \* frames are processed while entrances + exits is below this
MaxStored == 2    \* increments are served while the stored counter is below this
MaxHistory == 3   \* and while the history holds fewer events than this
MaxRequests == 3  \* a session issues at most this many fetch calls
MaxCalls == 3     \* at most this many increment calls are served step by step
MaxTime == 4      \* timestamps of history events are the minutes 1..MaxTime
MaxEvents == 3    \* a history table given to the queries holds at most this many events

----------------------------------------------------------------------------
(* Program constants, in model units *)

threshold == 6            \* 0.15 in units of 1/40
normalizedLineX == 20     \* lineX / width = (width / 2) / width = 0.5, in units of 1/40
VisibilityMin == 5        \* 0.5 in tenths

Modes == {"torso", "skeleton", "bbox"}

----------------------------------------------------------------------------
(* Detector input: a body is reduced to its two hip landmarks (indices 23  *)
(* and 24), which are also the landmarks the skeleton and bbox modes see.  *)

Landmark(x, y, v) == [x |-> x, y |-> y, visibility |-> v]

Body(lx, rx, y, lv, rv) ==
    [leftHip |-> Landmark(lx, y, lv), rightHip |-> Landmark(rx, y, rv)]

HipPairs == {<<6, 6>>, <<8, 10>>, <<10, 12>>, <<12, 12>>}

Bodies ==
    {Body(p[1], p[2], 10, 9, 9) : p \in HipPairs}
        \cup {Body(10, 10, 12, 9, 9), Body(10, 12, 10, 9, 5)}

Frames ==
    {<<>>} \cup {<<a>> : a \in Bodies} \cup {<<a, b>> : a \in Bodies, b \in Bodies}

\* Bodies by what the detector sees of them: both hips, one hip (the other
\* at visibility 0.5 exactly, or below it), or no landmark at all
SeenBodies ==
    {Body(8, 10, 10, 9, 9), Body(10, 12, 10, 9, 9), Body(10, 12, 10, 9, 5),
     Body(8, 10, 10, 4, 9), Body(10, 12, 10, 4, 5)}

SeenFrames ==
    {<<>>} \cup {<<a>> : a \in SeenBodies} \cup {<<a, b>> : a \in SeenBodies, b \in SeenBodies}

(* `who` names the physical person a body of a frame belongs to; the       *)
(* program never sees it, it only lets properties speak of "the same body". *)

People == {"A", "B"}

Other(w) == IF w = "A" THEN "B" ELSE "A"

LabelledFrames ==
    {<<>>} \cup {<<[who |-> w, body |-> a]>> : w \in People, a \in Bodies}
        \cup {<<[who |-> w, body |-> a], [who |-> Other(w), body |-> b]>> :
                 w \in People, a \in Bodies, b \in Bodies}

NoCenter == [none |-> TRUE]

----------------------------------------------------------------------------
(* Pure helpers *)

SetMin(S) == CHOOSE m \in S : \A n \in S : m <= n
SetMax(S) == CHOOSE m \in S : \A n \in S : m >= n

\* getDistance, squared: (p1.x - p2.x)^2 + (p1.y - p2.y)^2
getDistanceSq(p1, p2) ==
    (p1.x - p2.x) * (p1.x - p2.x) + (p1.y - p2.y) * (p1.y - p2.y)

\* landmarks.filter((l) => l.visibility > 0.5)
visibleLandmarks(body) ==
    {l \in {body.leftHip, body.rightHip} : l.visibility > VisibilityMin}

\* Mutant: every mode takes the hip midpoint, and a hip at visibility 0.5
\* exactly for visible
ComputeCenter_Inclusive(body, mode) ==
    IF body.leftHip.visibility >= VisibilityMin /\ body.rightHip.visibility >= VisibilityMin
    THEN [x |-> body.leftHip.x + body.rightHip.x, y |-> body.leftHip.y + body.rightHip.y]
    ELSE NoCenter

\* The reference point of one body in the given mode, or NoCenter (center = null).
ComputeCenter(body, mode) ==
    IF mode = "torso"
    THEN IF body.leftHip.visibility > VisibilityMin
            /\ body.rightHip.visibility > VisibilityMin
         THEN [x |-> body.leftHip.x + body.rightHip.x,
               y |-> body.leftHip.y + body.rightHip.y]
         ELSE NoCenter
    ELSE LET vis == visibleLandmarks(body)
             n   == IF body.leftHip.visibility > VisibilityMin
                       /\ body.rightHip.visibility > VisibilityMin
                    THEN 2
                    ELSE Cardinality(vis)
         IN  IF n = 0
             THEN NoCenter
             ELSE IF mode = "skeleton"
                  THEN LET sumX == IF n = 2 THEN body.leftHip.x + body.rightHip.x
                                   ELSE (CHOOSE l \in vis : TRUE).x
                           sumY == IF n = 2 THEN body.leftHip.y + body.rightHip.y
                                   ELSE (CHOOSE l \in vis : TRUE).y
                       IN  [x |-> (2 * sumX) \div n, y |-> (2 * sumY) \div n]
                  ELSE [x |-> SetMin({l.x : l \in vis}) + SetMax({l.x : l \in vis}),
                        y |-> SetMin({l.y : l \in vis}) + SetMax({l.y : l \in vis})]

----------------------------------------------------------------------------
(* The insertion-ordered Map of tracked people, as a sequence of entries   *)
(* [id, center, counted, lastSeen] with pairwise distinct ids.             *)

MapHas(m, id) == \E k \in 1..Len(m) : m[k].id = id

MapIndex(m, id) == CHOOSE k \in 1..Len(m) : m[k].id = id

MapGet(m, id) == m[MapIndex(m, id)]

\* Map.prototype.set: an existing key keeps its position, a new key is appended
MapSet(m, entry) ==
    IF MapHas(m, entry.id)
    THEN [m EXCEPT ![MapIndex(m, entry.id)] = entry]
    ELSE Append(m, entry)

MapKeys(m) == {m[k].id : k \in 1..Len(m)}

NoMatch == [none |-> TRUE]

\* The forEach scan: minDist starts at the threshold and a person replaces the
\* match only when strictly nearer, so the first of several equally near wins.
RECURSIVE NearestScan(_, _, _, _, _)
NearestScan(prev, center, k, minDistSq, matchedId) ==
    IF k > Len(prev)
    THEN matchedId
    ELSE LET dist == getDistanceSq(center, prev[k].center)
         IN  IF dist < minDistSq
             THEN NearestScan(prev, center, k + 1, dist, prev[k].id)
             ELSE NearestScan(prev, center, k + 1, minDistSq, matchedId)

\* Mutant: a person at exactly the threshold distance is matched
FindMatch_Inclusive(prev, center) ==
    NearestScan(prev, center, 1, threshold * threshold + 1, NoMatch)

FindMatch(prev, center) ==
    NearestScan(prev, center, 1, threshold * threshold, NoMatch)

----------------------------------------------------------------------------
(* processPoseResults: the forEach over the detected bodies, as a fold.    *)
(* acc.prev is trackedPeopleRef.current, whose person objects the loop     *)
(* mutates (prevPerson.counted = true); acc.cur is currentPeople.          *)

Id(t, index) == [t |-> t, index |-> index]

Person(id, center, counted, now) ==
    [id |-> id, center |-> center, counted |-> counted, lastSeen |-> now]

\* Mutant: the direction test reversed
CrossesIn_Reversed(prevPerson, center) ==
    prevPerson.center.x > normalizedLineX /\ center.x <= normalizedLineX

CrossesIn(prevPerson, center) ==
    prevPerson.center.x < normalizedLineX /\ center.x >= normalizedLineX

\* Mutant: the side of the previous center is not tested
CrossesOut_NoPrev(prevPerson, center) == center.x <= normalizedLineX

CrossesOut(prevPerson, center) ==
    prevPerson.center.x > normalizedLineX /\ center.x <= normalizedLineX

\* Mutant: prevPerson.counted is not set by a crossing
MarkedCounted_Never(prevPerson, crossed) == prevPerson.counted

\* prevPerson.counted = true, in the branch of a crossing: the flag of the
\* person of the previous working set after the body
MarkedCounted(prevPerson, crossed) == prevPerson.counted \/ crossed

\* The counted flag written into currentPeople for a matched person
CarriedCounted(prevPerson, crossed) == prevPerson.counted \/ crossed

\* Mutant: a new person starts as already counted
NewPerson_Counted(center, index, now) == Person(Id(now, index), center, TRUE, now)

\* The entry of a body that matched nothing: newId and { center, counted: false }
NewPerson(center, index, now) == Person(Id(now, index), center, FALSE, now)

\* What the resolver did with one body: its reference point, the previous
\* person it matched (or NoMatch), the key it was written under (NoMatch
\* for a body without a reference point, which is skipped), the counted flag
\* it read from the matched person and the event it emitted ("none" if none)
Resolved(center, matchedId, key, counted, event) ==
    [center |-> center, matchedId |-> matchedId, key |-> key, counted |-> counted,
     event |-> event]

\* One body with a center: match, crossing check, write into currentPeople
TrackBody(acc, center, index, now) ==
    LET matchedId == FindMatch(acc.prev, center)
    IN  IF matchedId # NoMatch
        THEN LET prevPerson == MapGet(acc.prev, matchedId)
                 in  == ~prevPerson.counted /\ CrossesIn(prevPerson, center)
                 out == ~prevPerson.counted /\ ~in /\ CrossesOut(prevPerson, center)
                 counted == CarriedCounted(prevPerson, in \/ out)
                 k   == MapIndex(acc.prev, matchedId)
                 event == IF in THEN "entrance" ELSE IF out THEN "exit" ELSE "none"
             IN  [prev |-> [acc.prev EXCEPT
                              ![k].counted = MarkedCounted(prevPerson, in \/ out)],
                  cur  |-> MapSet(acc.cur, Person(matchedId, center, counted, now)),
                  entrances |-> IF in THEN acc.entrances + 1 ELSE acc.entrances,
                  exits     |-> IF out THEN acc.exits + 1 ELSE acc.exits,
                  events    |-> IF event # "none"
                                THEN Append(acc.events, [id |-> matchedId, type |-> event])
                                ELSE acc.events,
                  resolved  |-> Append(acc.resolved,
                                       Resolved(center, matchedId, matchedId,
                                                prevPerson.counted, event))]
        ELSE [acc EXCEPT
                  !.cur = MapSet(acc.cur, NewPerson(center, index, now)),
                  !.resolved = Append(acc.resolved,
                                      Resolved(center, NoMatch, Id(now, index), FALSE,
                                               "none"))]

RECURSIVE ForEachBody(_, _, _, _, _)
ForEachBody(landmarks, i, mode, now, acc) ==
    IF i > Len(landmarks)
    THEN acc
    ELSE LET center == ComputeCenter(landmarks[i], mode)
         IN  ForEachBody(landmarks, i + 1, mode, now,
                         IF center # NoCenter
                         THEN TrackBody(acc, center, i - 1, now)
                         ELSE [acc EXCEPT
                                  !.resolved = Append(acc.resolved,
                                                      Resolved(NoCenter, NoMatch,
                                                               NoMatch, FALSE, "none"))])

\* The result of the loop; what was resolved for a body is kept with the
\* landmarks of that body
processPoseResults(landmarks, prev, mode, now, ent, ex) ==
    LET r == ForEachBody(landmarks, 1, mode, now,
                         [prev |-> prev, cur |-> <<>>, entrances |-> ent, exits |-> ex,
                          events |-> <<>>, resolved |-> <<>>])
    IN  [r EXCEPT !.resolved =
            [i \in 1..Len(landmarks) |-> r.resolved[i] @@ [body |-> landmarks[i]]]]

\* The ids of the previous working set that the bodies of a frame matched
MatchedIds(res) ==
    {res[i].matchedId : i \in {j \in 1..Len(res) : res[j].matchedId # NoMatch}}

\* The reference points of the bodies of a frame, in enumeration order
Centers(res) == [i \in 1..Len(res) |-> res[i].center]

SideOf(center) ==
    IF center.x < normalizedLineX THEN "left"
    ELSE IF center.x > normalizedLineX THEN "right" ELSE "on"

\* "none" until the person is seen, then the side it has always been on,
\* "mixed" once it was seen on the line or on both sides
SideSeen(old, center) ==
    IF center = NoCenter THEN old
    ELSE IF old = "none" /\ SideOf(center) # "on" THEN SideOf(center)
    ELSE IF old = SideOf(center) THEN old ELSE "mixed"

RECURSIVE SidesAfter(_, _, _, _)
SidesAfter(old, labelled, i, mode) ==
    IF i > Len(labelled)
    THEN old
    ELSE SidesAfter([old EXCEPT ![labelled[i].who] =
                        SideSeen(old[labelled[i].who],
                                 ComputeCenter(labelled[i].body, mode))],
                    labelled, i + 1, mode)

----------------------------------------------------------------------------
(* Counter store: db.js.  Two variants of the file exist: BACK/db.js over  *)
(* MariaDB, which keeps no history table, and the SQLite one, which does.  *)
(* The statements are the same up to the engine's semantics of             *)
(*   UPDATE t SET a = a + 1, b = a + 1 - c                                  *)
(* SQLite evaluates every right-hand side on the row as it was; MariaDB,   *)
(* in its default sql_mode, assigns left to right, so b reads the new a.   *)

Backends == {"mariadb", "sqlite"}

Undefined == [undefined |-> TRUE]

Row(id, e, x, inside, now) ==
    [id |-> id, entrances |-> e, exits |-> x, current_inside |-> inside,
     last_updated |-> now]

\* The index of the row that ORDER BY id DESC LIMIT 1 selects
LatestRow(rows) ==
    CHOOSE k \in 1..Len(rows) : \A l \in 1..Len(rows) : rows[l].id <= rows[k].id

\* last_updated after an UPDATE of a row: the SQLite variant sets it to
\* CURRENT_TIMESTAMP in the statement; under MariaDB the column is ON UPDATE
\* CURRENT_TIMESTAMP, which leaves it alone when no column changes value
LastUpdated(row, e, x, inside, now) ==
    IF backend = "mariadb" /\ row.entrances = e /\ row.exits = x
                           /\ row.current_inside = inside
    THEN row.last_updated
    ELSE now

\* UPDATE people_counter SET ... on the latest row; no row, no change
UpdateLatest(rows, e, x, inside, now) ==
    IF rows = <<>>
    THEN rows
    ELSE [rows EXCEPT ![LatestRow(rows)] =
              Row(@.id, e, x, inside, LastUpdated(@, e, x, inside, now))]

\* getPeopleCounter
getPeopleCounter(rows) ==
    IF rows # <<>>
    THEN [entrances |-> rows[LatestRow(rows)].entrances,
          exits |-> rows[LatestRow(rows)].exits,
          currentInside |-> rows[LatestRow(rows)].current_inside,
          lastUpdated |-> rows[LatestRow(rows)].last_updated]
    ELSE [entrances |-> 0, exits |-> 0, currentInside |-> 0, lastUpdated |-> Undefined]

\* data.x !== undefined ? Number(data.x) : 0, an absent field being undefined
NumberOrZero(data, field) == IF field \in DOMAIN data THEN data[field] ELSE 0

\* The record updatePeopleCounter writes and returns
UpdatedCounter(data) ==
    [entrances |-> NumberOrZero(data, "entrances"),
     exits |-> NumberOrZero(data, "exits"),
     currentInside |-> NumberOrZero(data, "entrances") - NumberOrZero(data, "exits")]

\* Mutant: the UPDATE goes to the oldest row (ORDER BY id ASC)
updatePeopleCounter_Oldest(rows, data, now) ==
    IF rows = <<>>
    THEN rows
    ELSE LET k == CHOOSE k \in 1..Len(rows) :
                      \A l \in 1..Len(rows) : rows[k].id <= rows[l].id
         IN  [rows EXCEPT ![k] = Row(@.id, UpdatedCounter(data).entrances,
                                     UpdatedCounter(data).exits,
                                     UpdatedCounter(data).currentInside, now)]

\* updatePeopleCounter: the rows after the UPDATE
updatePeopleCounter(rows, data, now) ==
    UpdateLatest(rows, UpdatedCounter(data).entrances, UpdatedCounter(data).exits,
                 UpdatedCounter(data).currentInside, now)

\* The value current_inside receives in the UPDATE of incrementPeopleCounter
IncrementedInside(db, row, type) ==
    IF type = "entrance"
    THEN IF db = "sqlite"
         THEN row.entrances + 1 - row.exits
         ELSE (row.entrances + 1) + 1 - row.exits
    ELSE IF db = "sqlite"
         THEN row.entrances - row.exits - 1
         ELSE row.entrances - (row.exits + 1) - 1

\* Mutant: the UPDATE writes a value computed from the empty counter instead
\* of adding to the column
incrementedRows_Absolute(db, rows, type, now) ==
    IF rows = <<>> \/ type \notin {"entrance", "exit"}
    THEN rows
    ELSE LET row == rows[LatestRow(rows)]
         IN  UpdateLatest(rows,
                          IF type = "entrance" THEN 1 ELSE row.entrances,
                          IF type = "exit" THEN 1 ELSE row.exits,
                          IncrementedInside(db, row, type), now)

\* incrementPeopleCounter: the rows after the UPDATE (none for another type)
incrementedRows(db, rows, type, now) ==
    IF rows = <<>> \/ type \notin {"entrance", "exit"}
    THEN rows
    ELSE LET row == rows[LatestRow(rows)]
         IN  UpdateLatest(rows,
                          IF type = "entrance" THEN row.entrances + 1 ELSE row.entrances,
                          IF type = "exit" THEN row.exits + 1 ELSE row.exits,
                          IncrementedInside(db, row, type), now)

\* incrementPeopleCounter: the history after the INSERT of the SQLite variant
incrementedHistory(db, history, type, now) ==
    IF db = "sqlite"
    THEN Append(history, [event_type |-> type, timestamp |-> now])
    ELSE history

\* Mutant: the UPDATE forgets the exits column
resetPeopleCounter_KeepsExits(rows, now) ==
    IF rows = <<>>
    THEN rows
    ELSE UpdateLatest(rows, 0, rows[LatestRow(rows)].exits,
                      0 - rows[LatestRow(rows)].exits, now)

\* resetPeopleCounter: the rows after the UPDATE
resetPeopleCounter(rows, now) == UpdateLatest(rows, 0, 0, 0, now)

\* Mutant: the overwrite logs an event as the increment does
updatedHistory_Logged(db, history, data, now) ==
    incrementedHistory(db, history, "entrance", now)

\* updatePeopleCounter: the history after it (it has no INSERT)
updatedHistory(db, history, data, now) == history

\* resetPeopleCounter: the history after it (it has no INSERT nor DELETE)
resetHistory(db, history, now) == history

EventTypes == {"entrance", "exit"}

\* Types the route refuses: a missing (or empty) one, and an unknown one
InvalidTypes == {"", "enter"}

\* A response of the counter API that reports an error
Err(op, status) == [op |-> op, status |-> status, data |-> Undefined, after |-> response.op]

\* Bodies a client may send to PUT /counter: both totals, or one of them only
PutValues == {-1, 0, 1, 2}

PutBodies ==
    {[entrances |-> e, exits |-> x] : e \in PutValues, x \in PutValues}
        \cup {[entrances |-> 1], [exits |-> 1]}

\* A response of the counter API; `after` is the operation served before it
Ok(op, data) == [op |-> op, status |-> 200, data |-> data, after |-> response.op]

----------------------------------------------------------------------------
(* The counter routes of api.js, each served in one step *)

\* GET /counter
GetCounter ==
    /\ response' = Ok("read", getPeopleCounter(people_counter))
    /\ UNCHANGED <<backend, people_counter, counter_history, clock, calls>>
    /\ UNCHANGED <<sessionVars, clientVars>>

\* PUT /counter
PutCounter(body) ==
    /\ people_counter' = updatePeopleCounter(people_counter, body, clock)
    /\ counter_history' = updatedHistory(backend, counter_history, body, clock)
    /\ response' = Ok("overwrite", UpdatedCounter(body))
    /\ UNCHANGED <<backend, clock, calls>>
    /\ UNCHANGED <<sessionVars, clientVars>>

\* Mutant: the route lets any type through
ValidType_Any(type) == TRUE

\* The check of the route: !type || !['entrance', 'exit'].includes(type)
ValidType(type) == type # "" /\ type \in EventTypes

\* POST /counter/increment: answers 400 to a type it does not accept
PostIncrement(type) ==
    /\ getPeopleCounter(people_counter).entrances < MaxStored
    /\ getPeopleCounter(people_counter).exits < MaxStored
    /\ Len(counter_history) < MaxHistory
    /\ IF ValidType(type)
       THEN /\ people_counter' = incrementedRows(backend, people_counter, type, clock)
            /\ counter_history' =
                   incrementedHistory(backend, counter_history, type, clock)
            /\ response' = Ok("increment",
                              getPeopleCounter(incrementedRows(backend, people_counter,
                                                               type, clock)))
       ELSE /\ response' = Err("increment", 400)
            /\ UNCHANGED <<people_counter, counter_history>>
    /\ UNCHANGED <<backend, clock, calls>>
    /\ UNCHANGED <<sessionVars, clientVars>>

\* POST /counter/reset
PostReset ==
    /\ people_counter' = resetPeopleCounter(people_counter, clock)
    /\ counter_history' = resetHistory(backend, counter_history, clock)
    /\ response' = Ok("reset", [entrances |-> 0, exits |-> 0, currentInside |-> 0])
    /\ UNCHANGED <<backend, clock, calls>>
    /\ UNCHANGED <<sessionVars, clientVars>>

\* initDatabase on an empty database: one row of zeros, no history
StoreInit ==
    /\ backend \in Backends
    /\ people_counter = <<Row(1, 0, 0, 0, 0)>>
    /\ counter_history = <<>>
    /\ response = [op |-> "init", status |-> 200, data |-> Undefined, after |-> "init"]
    /\ calls = <<>>

----------------------------------------------------------------------------
(* History queries of the SQLite variant.  A timestamp of counter_history   *)
(* is kept as a whole number of minutes on a scaled-down calendar: an hour  *)
(* has 2 minutes, a day 2 hours, a week 2 days and a month 2 weeks.         *)
(* strftime truncates a timestamp to the start of its minute, hour, day,    *)
(* week or month, and the labels it prints sort as the starts do.           *)

Times == 1..MaxTime

\* A field of an options object that may be missing
Optional(name, values) == {<<>>} \cup {[n \in {name} |-> v] : v \in values}

\* History tables: any events at any timestamps (the clock may be set back)
Events == [event_type : EventTypes, timestamp : Times]

Histories == UNION {[1..n -> Events] : n \in 0..MaxEvents}

\* Mutant: an unrecognized period is grouped by day
groupFormat_DefaultDay(period) ==
    IF period \in {"minute", "hour", "day", "week", "month"} THEN period ELSE "day"

\* The switch of getCounterStats: the strftime format of a period
groupFormat(period) ==
    CASE period = "minute" -> "minute"
      [] period = "hour"   -> "hour"
      [] period = "day"    -> "day"
      [] period = "week"   -> "week"
      [] period = "month"  -> "month"
      [] OTHER             -> "hour"

\* Minutes in one unit of a format, on the scaled-down calendar
Width(format) ==
    CASE format = "minute" -> 1
      [] format = "hour"   -> 2
      [] format = "day"    -> 4
      [] format = "week"   -> 8
      [] format = "month"  -> 16

\* strftime(format, timestamp): the start of the unit the timestamp lies in
strftime(format, timestamp) == (timestamp \div Width(format)) * Width(format)

\* WHERE 1=1 [AND timestamp >= from] [AND timestamp <= to]: a bound is
\* appended only when the argument is given
InRange(timestamp, options) ==
    /\ "from" \in DOMAIN options => timestamp >= options.from
    /\ "to" \in DOMAIN options => timestamp <= options.to

Selected(history, options) ==
    {k \in 1..Len(history) : InRange(history[k].timestamp, options)}

RECURSIVE Ascending(_)
Ascending(S) ==
    IF S = {} THEN <<>> ELSE <<SetMin(S)>> \o Ascending(S \ {SetMin(S)})

\* Arguments of getCounterStats; a missing period takes the default 'hour',
\* "year" is a period the switch does not know
StatsPeriods == {"minute", "hour", "day", "week", "month", "year"}

StatsQueries ==
    {p @@ f @@ t : p \in Optional("period", StatsPeriods),
                   f \in Optional("from", Times), t \in Optional("to", Times)}

PeriodOf(query) == IF "period" \in DOMAIN query THEN query.period ELSE "hour"

\* getCounterStats: GROUP BY strftime(format, timestamp) ORDER BY period ASC
getCounterStats(history, query) ==
    LET format == groupFormat(PeriodOf(query))
        sel == Selected(history, query)
        label(k) == strftime(format, history[k].timestamp)
        periods == Ascending({label(k) : k \in sel})
        sum(l, type) ==
            Cardinality({k \in sel : label(k) = l /\ history[k].event_type = type})
    IN  [i \in 1..Len(periods) |->
            [period |-> periods[i],
             entrances |-> sum(periods[i], "entrance"),
             exits |-> sum(periods[i], "exit")]]

\* A limit is a number, or the string of a number as a query string gives it
Limits == [type : {"number", "string"}, value : 0..MaxEvents - 1]

\* Arguments of getCounterHistory: { from, to, limit }, each optional
HistoryQueries ==
    {f @@ t @@ l : f \in Optional("from", Times), t \in Optional("to", Times),
                   l \in Optional("limit", Limits)}

\* Truthiness of a limit: the number 0 is falsy, the string "0" is not
Truthy(limit) == limit.type = "string" \/ limit.value # 0

\* parseInt of a limit
parseInt(limit) == limit.value

\* if (options.limit): LIMIT is appended for a limit that is given and truthy
HasLimit(options) == "limit" \in DOMAIN options /\ Truthy(options.limit)

\* SELECT *: a row of counter_history with its AUTOINCREMENT id
HistoryRow(history, k) ==
    [id |-> k, event_type |-> history[k].event_type, timestamp |-> history[k].timestamp]

\* The orders ORDER BY timestamp DESC may produce: rows of equal timestamp
\* come in an order the statement does not fix
RECURSIVE Descending(_, _)
Descending(history, S) ==
    IF S = {}
    THEN {<<>>}
    ELSE UNION {{<<HistoryRow(history, k)>> \o rest : rest \in Descending(history, S \ {k})} :
                   k \in {n \in S : \A o \in S : history[n].timestamp >= history[o].timestamp}}

\* The LIMIT n of a result
Limited(rows, n) == SubSeq(rows, 1, IF n < Len(rows) THEN n ELSE Len(rows))

\* getCounterHistory: the results the query may return
getCounterHistory(history, options) ==
    {IF HasLimit(options) THEN Limited(rows, parseInt(options.limit)) ELSE rows :
        rows \in Descending(history, Selected(history, options))}

\* The answer to a query, with the arguments it was asked with
Answered(op, data, query) ==
    [op |-> op, status |-> 200, data |-> data, after |-> response.op, query |-> query]

\* A call of getCounterStats (the dashboard fetches /counter/stats?period=...)
QueryStats(query) ==
    /\ backend = "sqlite"
    /\ response' = Answered("stats", getCounterStats(counter_history, query), query)
    /\ UNCHANGED <<backend, people_counter, counter_history, clock, calls>>
    /\ UNCHANGED <<sessionVars, clientVars>>

----------------------------------------------------------------------------
(* POST /counter/increment served step by step, several calls at a time.    *)
(* Under BACK/db.js a call awaits a connection of the pool, its UPDATE, a   *)
(* second connection for the nested getPeopleCounter and the SELECT; other  *)
(* calls run between these steps.  The SQLite variant is synchronous: a     *)
(* call runs from its first statement to its last in one step.             *)

\* connectionLimit of the pool, with DB_CONNECTION_LIMIT=2 in the environment
connectionLimit == 2

CallsAt(pcs) == {i \in 1..Len(calls) : calls[i].pc \in pcs}

\* Connections of the pool that calls hold: one from the UPDATE on, a second
\* one during the nested read
InUse == Cardinality(CallsAt({"holding", "updated"})) + 2 * Cardinality(CallsAt({"reading"}))

MoveTo(i, pc) == calls' = [calls EXCEPT ![i].pc = pc]

\* The route accepts a call of a valid type and enters incrementPeopleCounter
Arrive(type) ==
    /\ type \in EventTypes
    /\ Len(calls) < MaxCalls
    /\ calls' = Append(calls, [type |-> type, pc |-> "start"])
    /\ UNCHANGED <<backend, people_counter, counter_history, response>>
    /\ UNCHANGED <<trackVars, clientVars, netVars>>

\* SQLite variant: UPDATE, INSERT and SELECT without a break
RunSync(i) ==
    /\ backend = "sqlite"
    /\ i \in CallsAt({"start"})
    /\ people_counter' = incrementedRows(backend, people_counter, calls[i].type, clock)
    /\ counter_history' = incrementedHistory(backend, counter_history, calls[i].type, clock)
    /\ response' = Ok("increment",
                      getPeopleCounter(incrementedRows(backend, people_counter,
                                                       calls[i].type, clock)))
    /\ MoveTo(i, "done")
    /\ UNCHANGED <<backend, trackVars, clientVars, netVars>>

\* BACK/db.js: pool.getConnection() of incrementPeopleCounter resolves
Acquire(i) ==
    /\ backend = "mariadb"
    /\ i \in CallsAt({"start"})
    /\ InUse < connectionLimit
    /\ MoveTo(i, "holding")
    /\ UNCHANGED <<backend, people_counter, counter_history, response>>
    /\ UNCHANGED <<trackVars, clientVars, netVars>>

\* BACK/db.js: the UPDATE statement of the call
Update(i) ==
    /\ i \in CallsAt({"holding"})
    /\ people_counter' = incrementedRows(backend, people_counter, calls[i].type, clock)
    /\ counter_history' = incrementedHistory(backend, counter_history, calls[i].type, clock)
    /\ MoveTo(i, "updated")
    /\ UNCHANGED <<backend, response, trackVars, clientVars, netVars>>

\* BACK/db.js: pool.getConnection() of the nested getPeopleCounter resolves
AcquireNested(i) ==
    /\ i \in CallsAt({"updated"})
    /\ InUse < connectionLimit
    /\ MoveTo(i, "reading")
    /\ UNCHANGED <<backend, people_counter, counter_history, response>>
    /\ UNCHANGED <<trackVars, clientVars, netVars>>

\* BACK/db.js: the SELECT, both connections released, the route answers
Select(i) ==
    /\ i \in CallsAt({"reading"})
    /\ response' = Ok("increment", getPeopleCounter(people_counter))
    /\ MoveTo(i, "done")
    /\ UNCHANGED <<backend, people_counter, counter_history>>
    /\ UNCHANGED <<trackVars, clientVars, netVars>>

\* BACK/db.js: a getConnection() that waits on an exhausted pool is rejected
\* after acquireTimeout; the call releases what it holds and the route
\* answers 500, before its UPDATE ("refused") or after it ("timedout")
AcquireTimeout(i) ==
    /\ i \in CallsAt({"start", "updated"})
    /\ backend = "mariadb"
    /\ InUse >= connectionLimit
    /\ MoveTo(i, IF calls[i].pc = "start" THEN "refused" ELSE "timedout")
    /\ response' = Err("increment", 500)
    /\ UNCHANGED <<backend, people_counter, counter_history>>
    /\ UNCHANGED <<trackVars, clientVars, netVars>>

----------------------------------------------------------------------------
(* Sync reconciler of App.jsx: debounce timer, fetch calls and their answers *)

Totals(e, x) == [entrances |-> e, exits |-> x]

NoTimer == [pending |-> FALSE, entrances |-> 0, exits |-> 0]

\* syncWithApi up to setTimeout: the pending timer, if any, is cleared and a
\* new one captures the totals it was called with
syncWithApi(newEntrances, newExits) ==
    [pending |-> TRUE, entrances |-> newEntrances, exits |-> newExits]

NoTimers == [pending |-> 0, cancelled |-> FALSE]

\* Mutant: syncWithApi does not clear the timer it replaces
clearTimeout_Skipped == [timers EXCEPT !.cancelled = FALSE]

\* if (syncTimeoutRef.current) clearTimeout(syncTimeoutRef.current): the
\* timer of the ref is taken from the browser if it has not fired yet
clearTimeout ==
    IF syncTimeout.pending
    THEN [pending |-> timers.pending - 1, cancelled |-> TRUE]
    ELSE [timers EXCEPT !.cancelled = FALSE]

\* setTimeout(..., 500): one more timer in the browser
setTimeout(held) == [held EXCEPT !.pending = @ + 1]

\* Mutant: the effect calls syncWithApi whether or not the API is connected
AfterRender_AlwaysSyncs ==
    /\ syncTimeout' =
           IF <<entrances', exits', apiConnected'>> # <<entrances, exits, apiConnected>>
           THEN syncWithApi(entrances', exits')
           ELSE syncTimeout
    /\ timers' =
           IF <<entrances', exits', apiConnected'>> # <<entrances, exits, apiConnected>>
           THEN setTimeout(clearTimeout)
           ELSE timers

\* The effect on [entrances, exits, apiConnected], run after a render that
\* changed one of them
AfterRender ==
    /\ syncTimeout' =
           IF <<entrances', exits', apiConnected'>> # <<entrances, exits, apiConnected>>
                 /\ apiConnected'
           THEN syncWithApi(entrances', exits')
           ELSE syncTimeout
    /\ timers' =
           IF <<entrances', exits', apiConnected'>> # <<entrances, exits, apiConnected>>
                 /\ apiConnected'
           THEN setTimeout(clearTimeout)
           ELSE timers

Request(n, kind, body) == [n |-> n, kind |-> kind, body |-> body]

\* The answer to a fetch call: response.ok, and the totals of result.data
Answer(req, ok, data) ==
    [n |-> req.n, kind |-> req.kind, sent |-> req.body, ok |-> ok,
     data |-> Totals(data.entrances, data.exits)]

\* fetch: one more call on its way to the API
Fetch(kind, body) ==
    /\ nextReq <= MaxRequests
    /\ requests' = requests \cup {Request(nextReq, kind, body)}
    /\ nextReq' = nextReq + 1

\* The crossings counted into the pending timer
BurstAfterFrame ==
    IF <<entrances', exits'>> # <<entrances, exits>> /\ apiConnected
    THEN [changes |-> burst.changes + 1,
          clean |-> IF burst.changes = 0 THEN TRUE ELSE burst.clean]
    ELSE burst

----------------------------------------------------------------------------
(* State machine of the tracking session *)

EventIds(evs) == {evs[k].id : k \in 1..Len(evs)}

Frame(landmarks) ==
    /\ entrances + exits < MaxCount
    /\ \E r \in {processPoseResults(landmarks, trackedPeople, trackingMode, clock,
                                     entrances, exits)} :
           /\ trackedPeople' = r.cur
           /\ entrances' = r.entrances
           /\ exits' = r.exits
           /\ events' = r.events
           /\ resolved' = r.resolved
           /\ emitted' = (emitted \cup EventIds(r.events)) \cap MatchedIds(r.resolved)
           /\ tally' = Totals(tally.entrances + r.entrances - entrances,
                              tally.exits + r.exits - exits)
    /\ apiConnected' = apiConnected
    /\ AfterRender
    /\ burst' = BurstAfterFrame
    /\ UNCHANGED <<trackingMode, clock, lastSynced, netVars>>

\* One iteration of the render loop that runs the detector
ProcessFrame(landmarks) ==
    /\ Frame(landmarks)
    /\ UNCHANGED <<sides, storeVars>>

\* The same, for a frame whose bodies are known by name
ProcessLabelledFrame(labelled) ==
    /\ Frame([i \in 1..Len(labelled) |-> labelled[i].body])
    /\ sides' = SidesAfter(sides, labelled, 1, trackingMode)
    /\ UNCHANGED storeVars

SetTrackingMode(mode) ==
    /\ mode # trackingMode
    /\ trackingMode' = mode
    /\ UNCHANGED <<trackedPeople, entrances, exits, clock, events, resolved, emitted,
                   sides, tally, storeVars, clientVars, netVars>>

Tick ==
    /\ clock < MaxClock
    /\ clock' = clock + 1
    /\ UNCHANGED <<trackedPeople, entrances, exits, trackingMode, events, resolved,
                   emitted, sides, tally, storeVars, clientVars, netVars>>

\* Mutant: the reset keeps the working set
NewMap_Kept == trackedPeople

\* new Map()
NewMap == <<>>

\* handleReset up to its fetch
handleReset ==
    /\ entrances' = 0
    /\ exits' = 0
    /\ trackedPeople' = NewMap
    /\ events' = <<>>
    /\ resolved' = <<>>
    /\ emitted' = {}
    /\ lastSynced' = Totals(0, 0)
    /\ IF apiConnected
       THEN Fetch("reset", Totals(0, 0))
       ELSE UNCHANGED <<requests, nextReq>>
    /\ apiConnected' = apiConnected
    /\ AfterRender
    /\ burst' = [burst EXCEPT !.clean = FALSE]
    /\ resetUsed' = TRUE
    /\ tally' = Totals(0, 0)
    /\ UNCHANGED <<trackingMode, clock, sides, storeVars, responses, anyFailed, peer>>

\* Mutant: the callback compares the entrances only
AlreadySynced_EntrancesOnly(newEntrances, newExits) ==
    newEntrances = lastSynced.entrances

\* newEntrances === lastSyncedEntrances.current && newExits === lastSyncedExits.current
AlreadySynced(newEntrances, newExits) ==
    newEntrances = lastSynced.entrances /\ newExits = lastSynced.exits

\* The callback of the debounce timer, up to its fetch
TimerFire ==
    /\ syncTimeout.pending
    /\ syncTimeout' = NoTimer
    /\ timers' = [pending |-> timers.pending - 1, cancelled |-> FALSE]
    /\ burst' = [changes |-> 0, clean |-> TRUE]
    /\ IF AlreadySynced(syncTimeout.entrances, syncTimeout.exits)
       THEN UNCHANGED <<requests, nextReq>>
       ELSE Fetch("overwrite", Totals(syncTimeout.entrances, syncTimeout.exits))
    /\ UNCHANGED <<trackVars, storeVars, apiConnected, lastSynced, responses,
                   anyFailed, resetUsed, peer>>

\* The API serves one of the calls on their way, whichever
Serve(req) ==
    /\ req \in requests
    /\ CASE req.kind = "read" -> GetCounter
         [] req.kind = "overwrite" -> PutCounter(req.body)
         [] req.kind = "reset" -> PostReset
    /\ requests' = requests \ {req}
    /\ responses' = responses \cup {Answer(req, TRUE, response'.data)}
    /\ UNCHANGED <<nextReq, anyFailed, resetUsed, peer>>

\* A call fails before the store is touched: fetch rejects, or the route
\* answers 500
FailCall(req) ==
    /\ req \in requests
    /\ requests' = requests \ {req}
    /\ responses' = responses \cup {Answer(req, FALSE, Totals(0, 0))}
    /\ anyFailed' = TRUE
    /\ UNCHANGED <<trackVars, storeVars, clientVars, nextReq, resetUsed, peer>>

\* A call fails after the store has served it: the answer is lost and fetch
\* rejects
LoseAnswer(resp) ==
    /\ resp \in responses
    /\ resp.ok
    /\ responses' = (responses \ {resp}) \cup {[resp EXCEPT !.ok = FALSE]}
    /\ anyFailed' = TRUE
    /\ UNCHANGED <<trackVars, storeVars, clientVars, requests, nextReq, resetUsed,
                   peer>>

\* Mutant: the totals of the answer are taken whether it is OK or not
Hydrated_Always(resp) == resp.data

\* if (response.ok) { setEntrances(result.data.entrances); setExits(...) }:
\* the Local Totals after the answer to the startup read
Hydrated(resp) == IF resp.ok THEN resp.data ELSE Totals(entrances, exits)

\* Mutant: the startup read does not record what it read as last synced
SyncedAfterRead_Never(resp) == lastSynced

\* lastSyncedEntrances.current = result.data.entrances (and exits), if response.ok
SyncedAfterRead(resp) ==
    IF resp.ok THEN Totals(resp.data.entrances, resp.data.exits) ELSE lastSynced

\* The rest of loadInitialData, once its fetch has settled
ReceiveRead(resp) ==
    /\ resp \in responses
    /\ resp.kind = "read"
    /\ responses' = responses \ {resp}
    /\ entrances' = Hydrated(resp).entrances
    /\ exits' = Hydrated(resp).exits
    /\ lastSynced' = SyncedAfterRead(resp)
    /\ apiConnected' = IF resp.ok THEN TRUE ELSE apiConnected
    /\ AfterRender
    /\ burst' = [burst EXCEPT !.clean = FALSE]
    /\ UNCHANGED <<trackedPeople, trackingMode, clock, events, resolved, emitted,
                   sides, tally, storeVars, requests, nextReq, anyFailed, resetUsed,
                   peer>>

\* Mutant: the sent totals are recorded whatever the answer
SyncedAfter_Always(resp) == resp.sent

\* if (response.ok) { lastSynced... = new... }: last synced after the answer
SyncedAfter(resp) == IF resp.ok THEN resp.sent ELSE lastSynced

\* The rest of the timer callback, once its fetch has settled
ReceiveOverwrite(resp) ==
    /\ resp \in responses
    /\ resp.kind = "overwrite"
    /\ responses' = responses \ {resp}
    /\ lastSynced' = SyncedAfter(resp)
    /\ burst' = [burst EXCEPT !.clean = FALSE]
    /\ UNCHANGED <<trackVars, storeVars, apiConnected, syncTimeout, timers, requests,
                   nextReq, anyFailed, resetUsed, peer>>

\* The rest of handleReset, once its fetch has settled
ReceiveReset(resp) ==
    /\ resp \in responses
    /\ resp.kind = "reset"
    /\ responses' = responses \ {resp}
    /\ burst' = [burst EXCEPT !.clean = FALSE]
    /\ UNCHANGED <<trackVars, storeVars, apiConnected, lastSynced, syncTimeout, timers,
                   requests, nextReq, anyFailed, resetUsed, peer>>

----------------------------------------------------------------------------
(* A second session of the same App on the same API.  Its tracker is not   *)
(* run: a crossing it detects is one step that adds 1 to one of its Local  *)
(* Totals.  Its reconciler is the one above; it has one call at a time on   *)
(* its way.                                                                 *)

NoCall == [kind |-> "none", body |-> Totals(0, 0), served |-> FALSE, data |-> Totals(0, 0)]

PeerCall(kind, body) == [kind |-> kind, body |-> body, served |-> FALSE, data |-> Totals(0, 0)]

\* The second session once mounted: loadInitialData has issued its fetch
PeerMounted ==
    [entrances |-> 0, exits |-> 0, lastSynced |-> Totals(0, 0), apiConnected |-> FALSE,
     syncTimeout |-> NoTimer, call |-> PeerCall("read", Totals(0, 0)),
     tally |-> Totals(0, 0)]

\* The sync effect of the second session after its totals have changed
PeerAfterRender(e, x) ==
    IF peer.apiConnected THEN syncWithApi(e, x) ELSE peer.syncTimeout

\* A body crosses the line of the second session
PeerCross(type) ==
    /\ peer.entrances + peer.exits < MaxCount
    /\ LET e == IF type = "entrance" THEN peer.entrances + 1 ELSE peer.entrances
           x == IF type = "exit" THEN peer.exits + 1 ELSE peer.exits
       IN  peer' = [peer EXCEPT !.entrances = e, !.exits = x,
                                !.syncTimeout = PeerAfterRender(e, x),
                                !.tally = Totals(@.entrances + e - peer.entrances,
                                                   @.exits + x - peer.exits)]
    /\ UNCHANGED <<trackVars, storeVars, clientVars, requests, responses, nextReq,
                   anyFailed, resetUsed>>

\* The callback of the debounce timer of the second session, up to its fetch
PeerTimerFire ==
    /\ peer.syncTimeout.pending
    /\ peer.call = NoCall
    /\ peer' = [peer EXCEPT
                   !.syncTimeout = NoTimer,
                   !.call = IF Totals(peer.syncTimeout.entrances, peer.syncTimeout.exits)
                                 = peer.lastSynced
                            THEN NoCall
                            ELSE PeerCall("overwrite",
                                          Totals(peer.syncTimeout.entrances,
                                                 peer.syncTimeout.exits))]
    /\ UNCHANGED <<trackVars, storeVars, clientVars, requests, responses, nextReq,
                   anyFailed, resetUsed>>

\* The API serves the call of the second session
PeerServe ==
    /\ peer.call.kind # "none"
    /\ ~peer.call.served
    /\ IF peer.call.kind = "read" THEN GetCounter ELSE PutCounter(peer.call.body)
    /\ peer' = [peer EXCEPT !.call.served = TRUE,
                            !.call.data = Totals(response'.data.entrances,
                                                 response'.data.exits)]
    /\ UNCHANGED <<requests, responses, nextReq, anyFailed, resetUsed>>

\* The second session takes the answer to its call: the rest of
\* loadInitialData, or of the timer callback
PeerReceive ==
    /\ peer.call.served
    /\ peer' = IF peer.call.kind = "read"
               THEN [peer EXCEPT !.entrances = peer.call.data.entrances,
                                 !.exits = peer.call.data.exits,
                                 !.lastSynced = peer.call.data,
                                 !.apiConnected = TRUE,
                                 !.syncTimeout = syncWithApi(peer.call.data.entrances,
                                                             peer.call.data.exits),
                                 !.call = NoCall]
               ELSE [peer EXCEPT !.lastSynced = peer.call.body, !.call = NoCall]
    /\ UNCHANGED <<trackVars, storeVars, clientVars, requests, responses, nextReq,
                   anyFailed, resetUsed>>

SessionInit ==
    /\ trackedPeople = <<>>
    /\ entrances = 0
    /\ exits = 0
    /\ trackingMode = "torso"
    /\ clock = 0
    /\ events = <<>>
    /\ resolved = <<>>
    /\ emitted = {}
    /\ sides = [w \in People |-> "none"]
    /\ tally = Totals(0, 0)
    /\ peer = PeerMounted
    /\ apiConnected = FALSE
    /\ lastSynced = Totals(0, 0)
    /\ syncTimeout = NoTimer
    /\ timers = NoTimers
    /\ burst = [changes |-> 0, clean |-> TRUE]
    /\ anyFailed = FALSE
    /\ resetUsed = FALSE
    /\ responses = {}

\* The session is mounted: loadInitialData has issued its fetch
Mounted ==
    /\ SessionInit
    /\ requests = {Request(1, "read", Totals(0, 0))}
    /\ nextReq = 2

\* The tracking session alone: the store is there but does not answer
TrackInit ==
    /\ Mounted
    /\ StoreInit
    /\ backend = "mariadb"

TrackNext ==
    \/ \E landmarks \in Frames : ProcessFrame(landmarks)
    \/ \E mode \in Modes : SetTrackingMode(mode)
    \/ handleReset
    \/ Tick

SpecTrack == TrackInit /\ [][TrackNext]_vars

\* The routes called by some client other than the session
CallGet == GetCounter /\ UNCHANGED netVars

CallPut(body) == PutCounter(body) /\ UNCHANGED netVars

CallIncrement(type) == PostIncrement(type) /\ UNCHANGED netVars

CallReset == PostReset /\ UNCHANGED netVars

StoreNext ==
    \/ CallGet
    \/ \E body \in PutBodies : CallPut(body)
    \/ \E type \in EventTypes \cup InvalidTypes : CallIncrement(type)
    \/ CallReset
    \/ Tick

\* The store alone, under either variant of db.js: no session is mounted
StoreOnlyInit ==
    /\ SessionInit
    /\ requests = {}
    /\ nextReq = 1
    /\ StoreInit

SpecStore == StoreOnlyInit /\ [][StoreNext]_vars

\* Counts a row of an existing table may hold
RecordValues == {0, 2}

RecordRows(id) ==
    {Row(id, e, x, e - x + d, 0) : e \in RecordValues, x \in RecordValues, d \in {0, 1}}

\* Tables the functions of db.js may be given: no row, one row, or two rows
\* stored in either order
Tables ==
    {<<>>}
        \cup {<<r>> : r \in RecordRows(1)}
        \cup {<<r1, r2>> : r1 \in RecordRows(1), r2 \in RecordRows(2)}
        \cup {<<r2, r1>> : r1 \in RecordRows(1), r2 \in RecordRows(2)}

\* getPeopleCounter and updatePeopleCounter on any table
RecordInit ==
    /\ SessionInit
    /\ requests = {}
    /\ nextReq = 1
    /\ backend \in Backends
    /\ people_counter \in Tables
    /\ counter_history = <<>>
    /\ response = [op |-> "init", status |-> 200, data |-> Undefined, after |-> "init"]
    /\ calls = <<>>

RecordNext ==
    \/ CallGet
    \/ \E body \in PutBodies : CallPut(body)
    \/ Tick

SpecRecord == RecordInit /\ [][RecordNext]_vars

\* A call of getCounterHistory
QueryHistory(options) ==
    /\ backend = "sqlite"
    /\ \E rows \in getCounterHistory(counter_history, options) :
           response' = Answered("history", rows, options)
    /\ UNCHANGED <<backend, people_counter, counter_history, clock, calls>>
    /\ UNCHANGED <<sessionVars, clientVars>>

\* getCounterStats and getCounterHistory on any history table
HistoryInit ==
    /\ SessionInit
    /\ requests = {}
    /\ nextReq = 1
    /\ backend = "sqlite"
    /\ people_counter = <<Row(1, 0, 0, 0, 0)>>
    /\ counter_history \in Histories
    /\ response = [op |-> "init", status |-> 200, data |-> Undefined, after |-> "init"]
    /\ calls = <<>>

\* Each table drawn is asked one query
CallStats ==
    /\ response.op = "init"
    /\ \E query \in StatsQueries : QueryStats(query)
    /\ UNCHANGED netVars

CallHistory ==
    /\ response.op = "init"
    /\ \E options \in HistoryQueries : QueryHistory(options)
    /\ UNCHANGED netVars

HistoryNext ==
    \/ CallStats
    \/ CallHistory

SpecHistory == HistoryInit /\ [][HistoryNext]_vars

CallsNext ==
    \/ \E type \in EventTypes : Arrive(type)
    \/ \E i \in 1..Len(calls) : RunSync(i)
    \/ \E i \in 1..Len(calls) : Acquire(i)
    \/ \E i \in 1..Len(calls) : Update(i)
    \/ \E i \in 1..Len(calls) : AcquireNested(i)
    \/ \E i \in 1..Len(calls) : Select(i)
    \/ \E i \in 1..Len(calls) : AcquireTimeout(i)

\* Concurrent increment calls on the store, under either variant of db.js
SpecCalls == StoreOnlyInit /\ [][CallsNext]_vars

BodiesNext == \E labelled \in LabelledFrames : ProcessLabelledFrame(labelled)

SpecBodies == TrackInit /\ [][BodiesNext]_vars

\* The render loop in the three modes, on bodies that are seen in part
SeenNext ==
    \/ \E landmarks \in SeenFrames : ProcessFrame(landmarks)
    \/ \E mode \in Modes : SetTrackingMode(mode)
    \/ Tick

SpecSeen == TrackInit /\ [][SeenNext]_vars

\* Frames of a single body walking about the line: none, one at x = 0.45, one
\* at x = 0.55
SyncFrames == {<<>>, <<Body(8, 10, 10, 9, 9)>>, <<Body(10, 12, 10, 9, 9)>>}

\* The store the session finds: fresh, or left at 1 entrance by an earlier one
SyncInit ==
    /\ Mounted
    /\ backend \in Backends
    /\ people_counter \in {<<Row(1, 0, 0, 0, 0)>>, <<Row(1, 1, 0, 1, 0)>>}
    /\ counter_history = <<>>
    /\ response = [op |-> "init", status |-> 200, data |-> Undefined, after |-> "init"]
    /\ calls = <<>>

SyncNext ==
    \/ \E landmarks \in SyncFrames : ProcessFrame(landmarks)
    \/ handleReset
    \/ TimerFire
    \/ \E req \in requests : Serve(req)
    \/ \E req \in requests : FailCall(req)
    \/ \E resp \in responses : LoseAnswer(resp)
    \/ \E resp \in responses : ReceiveRead(resp)
    \/ \E resp \in responses : ReceiveOverwrite(resp)
    \/ \E resp \in responses : ReceiveReset(resp)

\* The session and the store it talks to
SpecSync == SyncInit /\ [][SyncNext]_vars

\* Two sessions on one store, whose calls all succeed
SharedNext ==
    \/ \E landmarks \in SyncFrames : ProcessFrame(landmarks)
    \/ TimerFire
    \/ \E req \in requests : Serve(req)
    \/ \E resp \in responses : ReceiveRead(resp)
    \/ \E resp \in responses : ReceiveOverwrite(resp)
    \/ \E type \in EventTypes : PeerCross(type)
    \/ PeerTimerFire
    \/ PeerServe
    \/ PeerReceive

SpecShared == SyncInit /\ [][SharedNext]_vars

----------------------------------------------------------------------------
(* Track resolver and crossing detector: properties *)

\* C1: once a crossing event has been emitted for a tracked identity, no
\* further event is emitted for it for as long as it is carried forward, i.e.
\* matched by a body in every frame since: a frame that changes the Local
\* Totals emits no event for an identity of `emitted`.
C1_NoSecondEvent ==
    [][(entrances' # entrances \/ exits' # exits)
          => EventIds(events') \cap emitted = {}]_vars

NeverCrossed(w) == sides[w] # "mixed"

\* C2 as stated: if every body, taken by itself, has stayed strictly on one
\* side of the line in all frames, the Local Totals are still zero.
C2_EachBodyOneSided ==
    (\A w \in People : NeverCrossed(w)) => (entrances = 0 /\ exits = 0)

\* C2 amended: if in all frames all reference points were strictly on the
\* same side of the line (all left, or all right), the Local Totals are
\* still zero.
C2_AllOnOneSide ==
    (\/ \A w \in People : sides[w] \in {"none", "left"}
     \/ \A w \in People : sides[w] \in {"none", "right"})
        => (entrances = 0 /\ exits = 0)

\* C2 witness: two bodies, both only ever seen on the right, were each
\* matched to a track of the previous frame.
C2_Witness ==
    /\ \A w \in People : sides[w] = "right"
    /\ Len(resolved) = 2
    /\ Cardinality(MatchedIds(resolved)) = 2
    /\ Len(trackedPeople) = 2

\* The second frame of the scenario of C3: the previous frame held one body,
\* which matched nothing and became a track at x0; this frame holds one body
\* at x1, in Torso mode with zero Local Totals.
TwoFrames(x0, x1) ==
    /\ trackingMode = "torso"
    /\ entrances = 0
    /\ exits = 0
    /\ Len(resolved) = 1
    /\ resolved[1].center = [x |-> x0, y |-> 20]
    /\ resolved[1].matchedId = NoMatch
    /\ Len(trackedPeople) = 1
    /\ Len(resolved') = 1
    /\ resolved'[1].center = [x |-> x1, y |-> 20]

OneEntrance ==
    /\ entrances' = 1
    /\ exits' = 0
    /\ Len(events') = 1
    /\ events'[1].type = "entrance"

\* C3 as stated: hip midpoint at x = 0.3 (12) then x = 0.6 (24) gives exactly
\* one Entrance and Local Totals {1, 0}.
C3_Scenario == [][TwoFrames(12, 24) => OneEntrance]_vars

\* C3 amended: hip midpoint at x = 0.45 (18) then x = 0.55 (22), a move
\* shorter than the matching threshold, gives exactly one Entrance and Local
\* Totals {1, 0}; the move from 0.3 to 0.6 is not matched and gives no event.
C3_ScenarioWithinThreshold ==
    [][/\ TwoFrames(18, 22) => OneEntrance
       /\ TwoFrames(12, 24) => (entrances' = 0 /\ exits' = 0 /\ events' = <<>>)]_vars

\* C3 witness: the only event so far is the Entrance of the single tracked
\* body, now at x = 0.55, which the only left position within reach (0.45)
\* precedes.
C3_Witness ==
    /\ trackingMode = "torso"
    /\ entrances = 1
    /\ exits = 0
    /\ Len(events) = 1
    /\ Len(resolved) = 1
    /\ resolved[1].center = [x |-> 22, y |-> 20]
    /\ resolved[1].matchedId = Id(0, 0)
    /\ Len(trackedPeople) = 1
    /\ trackedPeople[1].counted

\* C4: when two bodies of a frame match the same previous track, the first
\* is stored under that track's identity and the second under another one,
\* so that the working set holds a track for each of them.
C4_OneTrackPerBody ==
    \A i, j \in 1..Len(resolved) :
        (i < j /\ resolved[i].matchedId # NoMatch
               /\ resolved[i].matchedId = resolved[j].matchedId)
            => /\ \E k \in 1..Len(trackedPeople) :
                     /\ trackedPeople[k].id = resolved[i].matchedId
                     /\ trackedPeople[k].center = resolved[i].center
               /\ \E k \in 1..Len(trackedPeople) :
                     /\ trackedPeople[k].id # resolved[i].matchedId
                     /\ trackedPeople[k].center = resolved[j].center

\* A step that processes a frame with at least one body: trackedPeople is
\* the working set of the previous frame and resolved' tells what the
\* resolver did with each body (a reset leaves resolved' empty; a tick and a
\* change of mode are the steps that change the clock or the mode)
FrameProcessed ==
    /\ clock' = clock
    /\ trackingMode' = trackingMode
    /\ resolved' # <<>>

\* C23: a reference point is matched to a previous track iff the least
\* distance to the previous tracks is strictly below the threshold; the
\* track matched is one at that least distance, and a point whose nearest
\* previous track is at the threshold or farther becomes a track of its own.
C23_MatchIffNearer ==
    [][FrameProcessed =>
          \A i \in 1..Len(resolved') :
              resolved'[i].center # NoCenter =>
                  LET dist(k) == getDistanceSq(resolved'[i].center, trackedPeople[k].center)
                      dists == {dist(k) : k \in 1..Len(trackedPeople)}
                      near == dists # {} /\ SetMin(dists) < threshold * threshold
                  IN  /\ resolved'[i].matchedId # NoMatch <=> near
                      /\ near => \E k \in 1..Len(trackedPeople) :
                                     /\ trackedPeople[k].id = resolved'[i].matchedId
                                     /\ dist(k) = SetMin(dists)
                      /\ ~near => /\ resolved'[i].key # NoMatch
                                  /\ MapHas(trackedPeople', resolved'[i].key)
      ]_vars

\* A frame of two bodies over a previous track: the first, at 0.45, is
\* matched, the second, at 0.6 and so at 0.15 or more from any track the
\* first can match, is not and becomes a second track
C23_Witness ==
    /\ Len(resolved) = 2
    /\ resolved[1].center = [x |-> 18, y |-> 20]
    /\ resolved[1].matchedId # NoMatch
    /\ resolved[2].center = [x |-> 24, y |-> 20]
    /\ resolved[2].matchedId = NoMatch
    /\ Len(trackedPeople) = 2

\* The identities allocated for the bodies of a frame that matched nothing
NewIds(res) ==
    {res[i].key : i \in {j \in 1..Len(res) :
                            res[j].matchedId = NoMatch /\ res[j].key # NoMatch}}

\* C24: after a frame the working set holds exactly the identities matched
\* by a body of the frame and those allocated in it; a previous track that no
\* body matched is absent, and a frame without bodies leaves it empty.
C24_WorkingSetOfFrame ==
    [][(clock' = clock /\ trackingMode' = trackingMode) =>
          /\ resolved' = <<>> => trackedPeople' = <<>>
          /\ FrameProcessed =>
                 /\ MapKeys(trackedPeople') = MatchedIds(resolved') \cup NewIds(resolved')
                 /\ \A id \in MapKeys(trackedPeople) \ MatchedIds(resolved') :
                        ~MapHas(trackedPeople', id)
      ]_vars

\* The bodies of a frame that emitted an event of the given type
Emitters(res, type) == {i \in 1..Len(res) : res[i].event = type}

\* C25: a body that matches no previous track is inserted as a new track
\* with counted = FALSE (the entry stays as inserted unless a later body of
\* the frame is written under the same key) and emits no event, wherever it
\* is; the Local Totals change by the events of the matched bodies only.
C25_NewTrackEmitsNothing ==
    [][FrameProcessed =>
          /\ \A i \in 1..Len(resolved') :
                 (resolved'[i].center # NoCenter /\ resolved'[i].matchedId = NoMatch) =>
                     /\ resolved'[i].event = "none"
                     /\ MapHas(trackedPeople', resolved'[i].key)
                     /\ (\A j \in 1..Len(resolved') :
                             j > i => resolved'[j].key # resolved'[i].key)
                            => /\ MapGet(trackedPeople', resolved'[i].key).center
                                      = resolved'[i].center
                               /\ ~MapGet(trackedPeople', resolved'[i].key).counted
          /\ entrances' = entrances + Cardinality(Emitters(resolved', "entrance"))
          /\ exits' = exits + Cardinality(Emitters(resolved', "exit"))
          /\ Len(events') = Cardinality(Emitters(resolved', "entrance"))
                                + Cardinality(Emitters(resolved', "exit"))
      ]_vars

\* A frame of two bodies right of the line: the first matched a track and
\* entered, the second matched nothing; it is a new track, not counted, and
\* the only event is the entrance of the first
C25_Witness ==
    /\ Len(resolved) = 2
    /\ resolved[1].event = "entrance"
    /\ resolved[2].matchedId = NoMatch
    /\ resolved[2].center = [x |-> 24, y |-> 20]
    /\ MapHas(trackedPeople, resolved[2].key)
    /\ ~MapGet(trackedPeople, resolved[2].key).counted
    /\ Len(events) = 1
    /\ entrances = 1
    /\ exits = 0

\* C26: for a body matched to a track whose counted flag is still FALSE
\* when the body is handled, an entrance is emitted iff the previous center
\* is left of the line and the current one on it or right of it, an exit
\* iff the previous center is right of it and the current one on it or left
\* of it; never both, nothing for a previous center on the line, and each
\* event adds exactly 1 to exactly one of entrances and exits.
C26_CrossingRule ==
    [][FrameProcessed =>
          /\ \A i \in 1..Len(resolved') :
                 (resolved'[i].matchedId # NoMatch /\ ~resolved'[i].counted) =>
                     LET previous == MapGet(trackedPeople, resolved'[i].matchedId).center
                         current == resolved'[i].center
                     IN  /\ resolved'[i].event = "entrance"
                                <=> (previous.x < normalizedLineX
                                        /\ current.x >= normalizedLineX)
                         /\ resolved'[i].event = "exit"
                                <=> (previous.x > normalizedLineX
                                        /\ current.x <= normalizedLineX)
                         /\ previous.x = normalizedLineX => resolved'[i].event = "none"
          /\ entrances' - entrances = Cardinality(Emitters(resolved', "entrance"))
          /\ exits' - exits = Cardinality(Emitters(resolved', "exit"))
          /\ Emitters(resolved', "entrance") \cap Emitters(resolved', "exit") = {}
      ]_vars

\* A body that came from the right and now stands exactly on the line has
\* emitted an exit, the only event so far
C26_Witness ==
    /\ Len(resolved) = 1
    /\ resolved[1].event = "exit"
    /\ resolved[1].center.x = normalizedLineX
    /\ ~resolved[1].counted
    /\ exits = 1
    /\ entrances = 0
    /\ MapGet(trackedPeople, resolved[1].matchedId).counted

\* Extraction of the reference point fails: in Torso mode when a hip is not
\* more visible than 0.5, in the other modes when no landmark is
ExtractionFails(body, mode) ==
    IF mode = "torso"
    THEN body.leftHip.visibility <= VisibilityMin \/ body.rightHip.visibility <= VisibilityMin
    ELSE \A l \in {body.leftHip, body.rightHip} : l.visibility <= VisibilityMin

\* C27: a body whose extraction fails in the active mode is skipped: it is
\* written under no key, matches no track and emits no event, so that the
\* working set holds the tracks of the other bodies only; a body whose
\* extraction succeeds is tracked.
C27_FailedExtractionSkips ==
    [][FrameProcessed =>
          /\ \A i \in 1..Len(resolved') :
                 IF ExtractionFails(resolved'[i].body, trackingMode)
                 THEN /\ resolved'[i].center = NoCenter
                      /\ resolved'[i].key = NoMatch
                      /\ resolved'[i].matchedId = NoMatch
                      /\ resolved'[i].event = "none"
                 ELSE /\ resolved'[i].center # NoCenter
                      /\ resolved'[i].key # NoMatch
                      /\ MapHas(trackedPeople', resolved'[i].key)
          /\ MapKeys(trackedPeople') =
                 {resolved'[i].key :
                     i \in {j \in 1..Len(resolved') :
                               ~ExtractionFails(resolved'[j].body, trackingMode)}}
      ]_vars

\* Skeleton mode: the first body, seen by one hip only, is tracked and has
\* crossed the line; the second, of which no landmark is seen, is skipped
C27_Witness ==
    /\ trackingMode = "skeleton"
    /\ Len(resolved) = 2
    /\ resolved[1].body.rightHip.visibility <= VisibilityMin
    /\ resolved[1].event # "none"
    /\ resolved[2].center = NoCenter
    /\ Len(trackedPeople) = 1

\* C28: for an identity that is in the working set before and after a
\* frame, the counted flag does not go from TRUE to FALSE, and it goes from
\* FALSE to TRUE only if the frame emits a crossing event for the identity.
C28_CountedIsMonotonic ==
    [][FrameProcessed =>
          \A id \in MapKeys(trackedPeople) \cap MapKeys(trackedPeople') :
              /\ MapGet(trackedPeople, id).counted => MapGet(trackedPeople', id).counted
              /\ (~MapGet(trackedPeople, id).counted /\ MapGet(trackedPeople', id).counted)
                     => id \in EventIds(events')
      ]_vars

\* C29: an identity allocated in a frame differs from every identity of the
\* working set the frame started from (which holds identities allocated
\* earlier in the session), also when frames are processed at one clock value.
C29_NewIdsAreFresh ==
    [][FrameProcessed => NewIds(resolved') \cap MapKeys(trackedPeople) = {}]_vars

\* C32: in a frame at most one crossing event is emitted per track of the
\* previous working set, also when several bodies match the same track; so
\* the events of a frame are no more than the uncounted previous tracks.
C32_OneEventPerTrack ==
    [][FrameProcessed =>
          /\ \A i, j \in 1..Len(events') :
                 events'[i].id = events'[j].id => i = j
          /\ \A i \in 1..Len(events') :
                 /\ MapHas(trackedPeople, events'[i].id)
                 /\ ~MapGet(trackedPeople, events'[i].id).counted
          /\ Len(events') <= Cardinality({k \in 1..Len(trackedPeople) :
                                             ~trackedPeople[k].counted})
      ]_vars

\* Two bodies right of the line matched the same track, which was left of
\* it: one entrance was emitted, by the first of them
C32_Witness ==
    /\ Len(resolved) = 2
    /\ resolved[1].matchedId # NoMatch
    /\ resolved[1].matchedId = resolved[2].matchedId
    /\ resolved[1].event = "entrance"
    /\ resolved[2].counted
    /\ resolved[2].center.x >= normalizedLineX
    /\ Len(events) = 1
    /\ entrances = 1

----------------------------------------------------------------------------
(* Counter store: properties *)

Stored == getPeopleCounter(people_counter)

\* C5: after every mutation of the store (overwrite, increment, reset) the
\* stored record has currentInside = entrances - exits.
C5_InsideIsDifference ==
    response.op \in {"overwrite", "increment", "reset"}
        => Stored.currentInside = Stored.entrances - Stored.exits

\* C6: an increment of one type adds exactly 1 to the counter of that type,
\* leaves the other counter alone and appends exactly one history event of
\* that type.
C6_IncrementCountsAndLogs ==
    [][\A type \in EventTypes :
          PostIncrement(type)
              => /\ Stored'.entrances
                       = Stored.entrances + (IF type = "entrance" THEN 1 ELSE 0)
                 /\ Stored'.exits = Stored.exits + (IF type = "exit" THEN 1 ELSE 0)
                 /\ Len(counter_history') = Len(counter_history) + 1
                 /\ SubSeq(counter_history', 1, Len(counter_history)) = counter_history
                 /\ counter_history'[Len(counter_history')].event_type = type]_vars

\* C12: an increment request whose type is missing or is not 'entrance' or
\* 'exit' is answered with an error (400) and changes neither the counter
\* record (entrances, exits, currentInside) nor the history.
C12_InvalidTypeRejected ==
    [][\A type \in InvalidTypes :
          PostIncrement(type)
              => /\ response'.status = 400
                 /\ UNCHANGED <<people_counter, counter_history>>]_vars

\* C12 witness: the last answer is the refusal of an increment, on a store
\* that holds counts.
C12_Witness ==
    /\ response.op = "increment"
    /\ response.status = 400
    /\ Stored.entrances > 0
    /\ Stored.exits > 0

Counts(record) ==
    [entrances |-> record.entrances, exits |-> record.exits,
     currentInside |-> record.currentInside]

FullBodies == {body \in PutBodies : DOMAIN body = {"entrances", "exits"}}

\* C18: on a table that holds a record, whatever its rows, after
\* overwrite(a, b) the record read is entrances = a, exits = b, currentInside
\* = a - b; a read that follows an overwrite returns what the overwrite
\* answered; an overwrite that repeats the last one leaves entrances, exits
\* and currentInside as they are; and a read of a table without rows returns
\* the zero record.
C18_OverwriteReplaces ==
    [][/\ \A body \in FullBodies :
             (PutCounter(body) /\ people_counter # <<>>)
                 => Counts(Stored')
                        = [entrances |-> body.entrances, exits |-> body.exits,
                           currentInside |-> body.entrances - body.exits]
       /\ (GetCounter /\ response.op = "overwrite" /\ people_counter # <<>>)
             => Counts(response'.data) = Counts(response.data)
       /\ \A body \in PutBodies :
             (/\ PutCounter(body)
              /\ people_counter # <<>>
              /\ response.op = "overwrite"
              /\ response.data = UpdatedCounter(body))
                 => Counts(Stored') = Counts(Stored)
       /\ (GetCounter /\ people_counter = <<>>)
             => response'.data = [entrances |-> 0, exits |-> 0, currentInside |-> 0,
                                  lastUpdated |-> Undefined]]_vars

\* C18 witness: a table of two rows has been overwritten and then read; the
\* read gives the totals of the overwrite, which the older row does not hold.
C18_Witness ==
    /\ Len(people_counter) = 2
    /\ response.op = "read"
    /\ response.after = "overwrite"
    /\ Counts(response.data) = [entrances |-> 1, exits |-> 2, currentInside |-> -1]
    /\ \E k \in 1..2 : people_counter[k].id = 1 /\ people_counter[k].entrances # 1

\* C19: in every reachable state of the store, whatever requests the API
\* has accepted, the entrances and the exits of the record are >= 0.
C19_CountsNonNegative ==
    Stored.entrances >= 0 /\ Stored.exits >= 0

\* C7: an overwrite leaves the sequence of history events as it was.
C7_OverwriteKeepsHistory ==
    [][\A body \in PutBodies : PutCounter(body) => counter_history' = counter_history]_vars

\* C7 witness: two overwrites in a row on a store that holds history events.
C7_Witness ==
    /\ response.op = "overwrite"
    /\ response.after = "overwrite"
    /\ Len(counter_history) >= 2

\* C10: a read that follows a reset returns entrances = 0, exits = 0 and
\* currentInside = 0, and the reset leaves the history events as they were.
C10_ResetZeroesKeepsHistory ==
    [][/\ PostReset => counter_history' = counter_history
       /\ (response.op = "reset" /\ GetCounter)
             => /\ response'.data.entrances = 0
                /\ response'.data.exits = 0
                /\ response'.data.currentInside = 0]_vars

\* C10 witness: the read after a reset of a store that has history events.
C10_Witness ==
    /\ response.op = "read"
    /\ response.after = "reset"
    /\ Len(counter_history) >= 2
    /\ response.data.entrances = 0

RECURSIVE SeqSum(_)
SeqSum(s) == IF s = <<>> THEN 0 ELSE Head(s) + SeqSum(Tail(s))

\* The bucket of a timestamp: its truncation to the period, to the hour for
\* a period that is not one of the five
Truncated(period, timestamp) ==
    IF period \in {"minute", "hour", "day", "week", "month"}
    THEN strftime(period, timestamp)
    ELSE strftime("hour", timestamp)

\* C21: the statistics hold one row per non-empty bucket of the events
\* within [from, to], each row counts the entrances and the exits of its
\* bucket, the rows are in ascending order of bucket, and their sums are the
\* counts of the events in the range; an unknown period is bucketed by hour.
C21_StatsPerBucket ==
    response.op = "stats" =>
        LET rows == response.data
            query == response.query
            within ==
                {k \in 1..Len(counter_history) :
                    /\ "from" \in DOMAIN query => query.from <= counter_history[k].timestamp
                    /\ "to" \in DOMAIN query => counter_history[k].timestamp <= query.to}
            bucket(k) == Truncated(PeriodOf(query), counter_history[k].timestamp)
            count(S, type) == Cardinality({k \in S : counter_history[k].event_type = type})
        IN  /\ {rows[i].period : i \in 1..Len(rows)} = {bucket(k) : k \in within}
            /\ \A i, j \in 1..Len(rows) : i < j => rows[i].period < rows[j].period
            /\ \A i \in 1..Len(rows) :
                   /\ rows[i].entrances =
                          count({k \in within : bucket(k) = rows[i].period}, "entrance")
                   /\ rows[i].exits =
                          count({k \in within : bucket(k) = rows[i].period}, "exit")
            /\ SeqSum([i \in 1..Len(rows) |-> rows[i].entrances]) = count(within, "entrance")
            /\ SeqSum([i \in 1..Len(rows) |-> rows[i].exits]) = count(within, "exit")

\* Statistics by a period the switch does not know: a bucket with an
\* entrance before a bucket with an exit, of a history with a third event
\* that lies outside the range
C21_Witness ==
    /\ response.op = "stats"
    /\ Len(response.data) = 2
    /\ response.data[1].entrances = 1
    /\ response.data[2].exits = 1
    /\ SeqSum([i \in 1..2 |-> response.data[i].entrances + response.data[i].exits])
           < Len(counter_history)
    /\ PeriodOf(response.query) = "year"

\* C22: the history query returns exactly the events with
\* from <= timestamp <= to (each bound only when given), most recent first,
\* cut to the first `limit` events when a limit is given.
C22_HistoryNewestFirst ==
    response.op = "history" =>
        LET rows == response.data
            options == response.query
            within ==
                {k \in 1..Len(counter_history) :
                    /\ "from" \in DOMAIN options =>
                           options.from <= counter_history[k].timestamp
                    /\ "to" \in DOMAIN options => counter_history[k].timestamp <= options.to}
            returned == {rows[i].id : i \in 1..Len(rows)}
        IN  /\ returned \subseteq within
            /\ \A i \in 1..Len(rows) :
                   /\ rows[i].event_type = counter_history[rows[i].id].event_type
                   /\ rows[i].timestamp = counter_history[rows[i].id].timestamp
            /\ \A i, j \in 1..Len(rows) :
                   i < j => rows[i].id # rows[j].id /\ rows[i].timestamp >= rows[j].timestamp
            /\ \A k \in within \ returned :
                   \A i \in 1..Len(rows) : rows[i].timestamp >= counter_history[k].timestamp
            /\ IF "limit" \in DOMAIN options /\ options.limit.value < Cardinality(within)
               THEN Len(rows) = options.limit.value
               ELSE returned = within

----------------------------------------------------------------------------
(* Sync reconciler: properties *)

Quiescent ==
    /\ ~syncTimeout.pending
    /\ requests = {}
    /\ responses = {}

\* C8: in a connected session, when the debounce timer fires after N >= 1
\* crossings that each rescheduled it, with no store call resolved (and no
\* reset made) since the first of them, exactly one overwrite call is issued
\* and it carries the Local Totals as they are after the last crossing.
C8_OneOverwritePerBurst ==
    [][(TimerFire /\ apiConnected /\ burst.changes >= 1 /\ burst.clean)
          => requests' \ requests
                 = {Request(nextReq, "overwrite", Totals(entrances, exits))}]_vars

\* C9: in a connected session whose store calls have all succeeded (and
\* which was never reset), whatever the order in which its calls were served
\* and answered, once no timer is pending and no call is in flight the store
\* holds the Local Totals.
C9_StoreEqualsTotals ==
    (apiConnected /\ ~anyFailed /\ ~resetUsed /\ Quiescent)
        => (Stored.entrances = entrances /\ Stored.exits = exits)

\* An overwrite call is on its way to the API, or its answer on its way back
OverwriteInFlight ==
    \/ \E req \in requests : req.kind = "overwrite"
    \/ \E resp \in responses : resp.kind = "overwrite"

\* C30: at most one debounce timer is pending at any time; a render that
\* schedules a sync leaves exactly one, the one it has set, also while an
\* overwrite call is in flight; a call in flight is never cancelled (it
\* leaves the calls on their way only by being answered or by failing) and,
\* while one is in flight, every frame can be processed.
C30_OneTimerPending ==
    /\ [](timers.pending <= 1)
    /\ []((OverwriteInFlight /\ entrances + exits < MaxCount)
             => \A landmarks \in SyncFrames : ENABLED ProcessFrame(landmarks))
    /\ [][/\ (<<entrances', exits', apiConnected'>> # <<entrances, exits, apiConnected>>
                 /\ apiConnected')
             => /\ timers'.pending = 1
                /\ syncTimeout' = syncWithApi(entrances', exits')
                /\ requests \subseteq requests'
                /\ responses' \subseteq responses
          /\ \A req \in requests \ requests' : \E resp \in responses' : resp.n = req.n
         ]_vars

\* While an overwrite call is in flight a sync was scheduled over a timer
\* that had not fired: that timer was cancelled and one timer is pending
C30_Witness ==
    /\ \E req \in requests : req.kind = "overwrite"
    /\ timers = [pending |-> 1, cancelled |-> TRUE]
    /\ syncTimeout.pending

\* C31: after a successful startup read the Local Totals and the last
\* synced totals are those of the record read; and a timer that no crossing
\* has scheduled (the one set by the hydration, if no crossing follows it)
\* issues no overwrite call when it fires.
C31_HydrationWritesNothing ==
    [][/\ \A resp \in responses :
              (ReceiveRead(resp) /\ resp.ok)
                  => /\ Totals(entrances', exits') = resp.data
                     /\ lastSynced' = resp.data
          /\ ((TimerFire /\ burst.changes = 0) => requests' = requests)
      ]_vars

\* The session has read 1 entrance from the store, the timer set by the
\* hydration has fired, and the startup read is the only call ever issued
C31_Witness ==
    /\ apiConnected
    /\ Quiescent
    /\ Totals(entrances, exits) = Totals(1, 0)
    /\ lastSynced = Totals(1, 0)
    /\ nextReq = 2
    /\ ~resetUsed

\* C33: but for a reset, no step makes the Local Totals decrease; so a
\* crossing counted before the startup read is answered is still in the
\* Local Totals after the hydration.
C33_TotalsNeverDecrease ==
    [][~handleReset => (entrances' >= entrances /\ exits' >= exits)]_vars

\* C34: a connected session was reset, possibly while an overwrite call was
\* in flight, and no crossing has followed (its Local Totals are zero); all
\* its calls have succeeded.  Then, in whatever order they were served and
\* answered, once no timer is pending and no call is in flight the store
\* holds entrances = 0 and exits = 0.
C34_ResetWinsOverOverwrite ==
    (apiConnected /\ resetUsed /\ ~anyFailed /\ Quiescent
         /\ entrances = 0 /\ exits = 0)
        => (Stored.entrances = 0 /\ Stored.exits = 0)

\* C35: the last synced totals change only when the session takes a
\* successful answer to its startup read or to an overwrite call; a reset,
\* whether its store call is made, skipped or fails, leaves them alone.
C35_LastSyncedOnlyByAnswers ==
    [][lastSynced' # lastSynced =>
          \E resp \in responses \ responses' :
              resp.ok /\ resp.kind \in {"read", "overwrite"}]_vars

\* Both sessions are connected and have nothing pending nor in flight
BothQuiescent ==
    /\ apiConnected
    /\ Quiescent
    /\ peer.apiConnected
    /\ ~peer.syncTimeout.pending
    /\ peer.call = NoCall

\* C36: with two connected sessions on one store that was not reset, once
\* both are quiescent the store holds at least as many entrances and exits
\* as either session has emitted events.
C36_NoSyncErasesAnother ==
    BothQuiescent =>
        /\ Stored.entrances >= tally.entrances
        /\ Stored.exits >= tally.exits
        /\ Stored.entrances >= peer.tally.entrances
        /\ Stored.exits >= peer.tally.exits

----------------------------------------------------------------------------
(* Concurrent increments: properties *)

AllComplete ==
    /\ calls # <<>>
    /\ \A i \in 1..Len(calls) : calls[i].pc \in {"done", "refused", "timedout"}

\* The calls of a type whose UPDATE has run
Applied(type) ==
    Cardinality({i \in CallsAt({"updated", "reading", "done", "timedout"}) :
                     calls[i].type = type})

\* C11: whatever the interleaving of the steps of k concurrent increment
\* calls, once all of them have completed the stored entrances have grown
\* (from zero) by the number of Entrance calls that reached the store and the
\* stored exits by the number of Exit calls that did: no update is lost.
C11_NoLostUpdate ==
    AllComplete
        => /\ Stored.entrances = Applied("entrance")
           /\ Stored.exits = Applied("exit")

\* C11 witness: three calls have completed, of both types, and all three
\* reached the store.
C11_Witness ==
    /\ AllComplete
    /\ Len(calls) = 3
    /\ Applied("entrance") + Applied("exit") = 3
    /\ Stored.entrances >= 1
    /\ Stored.exits >= 1

\* C37: every increment call gives back the pool connections it took, and
\* no call waits for a pool connection while it holds one: a call that has
\* run its UPDATE and awaits the connection of the nested read never finds
\* the pool exhausted, so no set of calls can block one another.
C37_NoHoldAndWait ==
    /\ AllComplete => InUse = 0
    /\ \A i \in CallsAt({"updated"}) : InUse < connectionLimit

\* C13: when the debounce timer fires and the Local Totals equal the last
\* synced totals, no store call is issued; when they differ, exactly one
\* overwrite carrying the Local Totals is issued.
C13_FireSkipsOrOverwrites ==
    [][TimerFire
          => IF Totals(entrances, exits) = lastSynced
             THEN requests' = requests
             ELSE requests' \ requests
                      = {Request(nextReq, "overwrite", Totals(entrances, exits))}]_vars

\* C13 witness: the timer has fired and its overwrite, which carries Local
\* Totals that differ from the last synced ones, is on its way.
C13_Witness ==
    /\ ~syncTimeout.pending
    /\ Totals(entrances, exits) # lastSynced
    /\ \E req \in requests :
          /\ req.kind = "overwrite"
          /\ req.body = Totals(entrances, exits)
          /\ req.n = nextReq - 1

\* C14: when the answer to an overwrite call says it succeeded, last synced
\* becomes the totals that call sent; when the call failed (fetch rejected or
\* the answer is not OK), last synced and the Local Totals stay as they are;
\* and any change of the Local Totals in a connected session leaves a timer
\* pending whose overwrite will carry the totals as they are after the change.
C14_OverwriteOutcome ==
    [][/\ \A resp \in responses :
             ReceiveOverwrite(resp)
                 => IF resp.ok
                    THEN lastSynced' = resp.sent
                    ELSE UNCHANGED <<lastSynced, entrances, exits>>
       /\ (apiConnected /\ <<entrances', exits'>> # <<entrances, exits>>)
             => syncTimeout' = syncWithApi(entrances', exits')]_vars

\* C14 witness: an overwrite has failed, the Local Totals have changed since
\* and the pending timer carries them; last synced is still what it was
\* before the failed call.
C14_Witness ==
    /\ apiConnected
    /\ anyFailed
    /\ ~resetUsed
    /\ \A resp \in responses : resp.kind # "overwrite"
    /\ \A req \in requests : req.kind # "overwrite"
    /\ nextReq > 2
    /\ syncTimeout = syncWithApi(entrances, exits)
    /\ burst.changes >= 1
    /\ lastSynced # Totals(entrances, exits)

\* The startup read has settled without connecting the session
ReadFailed ==
    /\ ~apiConnected
    /\ \A req \in requests : req.kind # "read"
    /\ \A resp \in responses : resp.kind # "read"

\* C15 as stated: after a failed startup read, a change of the Local Totals
\* still schedules a debounced overwrite that carries the totals as they are
\* after the change.
C15_RetryAfterFailedRead ==
    [][(ReadFailed /\ <<entrances', exits'>> # <<entrances, exits>>)
          => syncTimeout' = syncWithApi(entrances', exits')]_vars

\* C15 amended: after a failed startup read the session stays detached for
\* its whole life: whatever the Local Totals do, no timer is pending and no
\* store call is on its way or answered, and none has been issued but the
\* read.
C15_DetachedAfterFailedRead ==
    ReadFailed
        => /\ ~syncTimeout.pending
           /\ requests = {}
           /\ responses = {}
           /\ nextReq = 2

\* C15 witness: the startup read has failed and the last frame counted a
\* crossing into the Local Totals.
C15_Witness ==
    /\ ReadFailed
    /\ anyFailed
    /\ events # <<>>
    /\ entrances + exits >= 1

ResetLocally ==
    /\ entrances' = 0
    /\ exits' = 0
    /\ trackedPeople' = <<>>

\* C16 as stated: a session reset zeroes the Local Totals and empties the
\* working set at once, issues one store reset call in the same step (not
\* through the timer), and the answer to that call, failed or not, leaves
\* the Local Totals and the working set as they are.
C16_ResetCallsStore ==
    [][/\ handleReset
             => /\ ResetLocally
                /\ requests' \ requests = {Request(nextReq, "reset", Totals(0, 0))}
       /\ \A resp \in responses :
             ReceiveReset(resp) => UNCHANGED <<entrances, exits, trackedPeople>>]_vars

\* C16 amended: a session reset zeroes the Local Totals and empties the
\* working set at once; if the session is connected it issues one store
\* reset call in the same step (not through the timer), and if it is not
\* (startup read pending or failed) it issues none; the answer to the call,
\* failed or not, leaves the Local Totals and the working set as they are.
C16_ResetCallsStoreIfConnected ==
    [][/\ handleReset
             => /\ ResetLocally
                /\ IF apiConnected
                   THEN requests' \ requests
                            = {Request(nextReq, "reset", Totals(0, 0))}
                   ELSE requests' = requests
       /\ \A resp \in responses :
             ReceiveReset(resp) => UNCHANGED <<entrances, exits, trackedPeople>>]_vars

\* C16 witness: in a connected session the only call issued
\* after the startup read is a store reset, and it has failed and been
\* answered; the Local Totals are zero and the working set is empty.
C16_Witness ==
    /\ apiConnected
    /\ resetUsed
    /\ anyFailed
    /\ nextReq = 3
    /\ requests = {}
    /\ responses = {}
    /\ entrances = 0
    /\ exits = 0
    /\ trackedPeople = <<>>
    /\ lastSynced = Totals(0, 0)

\* C17: a store call that fails, and the answer that reports it, change
\* neither the Local Totals, nor the working set, nor the events of the last
\* frame; the detector stays ready for the next frame whatever the state of
\* the calls; and the working set and the events a frame leaves are those
\* processPoseResults computes from the frame and the working set alone, so
\* that they are the same whether the store calls succeed or fail.
C17_FailuresLeaveCountingAlone ==
    /\ [](entrances + exits < MaxCount
             => \A landmarks \in SyncFrames : ENABLED ProcessFrame(landmarks))
    /\ [][/\ (\E req \in requests : FailCall(req))
                => UNCHANGED <<entrances, exits, trackedPeople, events>>
          /\ (\E resp \in responses : LoseAnswer(resp))
                => UNCHANGED <<entrances, exits, trackedPeople, events>>
          /\ \A resp \in responses :
                (~resp.ok /\ (\/ ReceiveRead(resp)
                              \/ ReceiveOverwrite(resp)
                              \/ ReceiveReset(resp)))
                    => UNCHANGED <<entrances, exits, trackedPeople, events>>
          /\ \A landmarks \in SyncFrames :
                ProcessFrame(landmarks)
                    => LET r == processPoseResults(landmarks, trackedPeople,
                                                   trackingMode, clock, 0, 0)
                       IN  /\ events' = r.events
                           /\ trackedPeople' = r.cur
                           /\ entrances' = entrances + r.entrances
                           /\ exits' = exits + r.exits]_vars

\* C17 witness: the startup read has failed, yet the last frame has counted
\* a crossing: the Local Totals hold it and the working set a counted track.
C17_Witness ==
    /\ ReadFailed
    /\ anyFailed
    /\ Len(events) = 1
    /\ entrances + exits = 1
    /\ Len(trackedPeople) = 1
    /\ trackedPeople[1].counted

CountType(history, type) ==
    Cardinality({k \in 1..Len(history) : history[k].event_type = type})

Raise(old, new) == IF new > old THEN new - old ELSE 0

\* C20 as stated: when the store serves an overwrite of the session that
\* carries crossings (it raises the stored entrances by n and the stored
\* exits by m), the history gains one event per crossing: n of type entrance
\* and m of type exit.
C20_OneEventPerCrossing ==
    [][\A req \in requests :
          (Serve(req) /\ req.kind = "overwrite")
              => /\ CountType(counter_history', "entrance")
                       = CountType(counter_history, "entrance")
                             + Raise(Stored.entrances, Stored'.entrances)
                 /\ CountType(counter_history', "exit")
                       = CountType(counter_history, "exit")
                             + Raise(Stored.exits, Stored'.exits)]_vars

\* C20 amended: the session propagates its crossings by overwrites of the
\* totals only, and a served overwrite creates no history event, however
\* many crossings it carries: with the session as only client the history
\* stays as the session found it.
C20_PropagationLogsNothing ==
    [][/\ \A req \in requests :
             (Serve(req) /\ req.kind = "overwrite")
                 => counter_history' = counter_history
       /\ \A req \in requests' : req.kind \in {"read", "overwrite", "reset"}
       /\ counter_history' = counter_history]_vars

\* C20 witness: the store has just served an overwrite that carried a
\* crossing of the session, and the history holds no event.
C20_Witness ==
    /\ apiConnected
    /\ response.op = "overwrite"
    /\ Stored.entrances + Stored.exits >= 1
    /\ Totals(Stored.entrances, Stored.exits) = Totals(entrances, exits)
    /\ \E k \in 1..Len(trackedPeople) : trackedPeople[k].counted
    /\ counter_history = <<>>

====
